---- MODULE Spec2Model ----
(***************************************************************************)
(* A model of go-observability: the response observer (responseWriter of   *)
(* packages logging and metrics), the metrics middleware                   *)
(* (Collector.Middleware), the health handlers (health.LivenessHandler,    *)
(* health.ReadinessHandler), Collector.RecordError, and trace.Middleware   *)
(* with Logger.Middleware and logging.FromContext.                         *)
(***************************************************************************)
EXTENDS Integers, Sequences, FiniteSets, TLC

(***************************************************************************)
(* Bounds                                                                  *)
(***************************************************************************)
\* number of calls made on one response observer
MaxCalls == 3
\* number of requests that pass through Collector.Middleware
MaxReqs == 2
\* number of checkers handed to ReadinessHandler
MaxProbes == 2
\* number of readiness requests served
MaxEvals == 2
\* number of requests served through trace.Middleware and Logger.Middleware
MaxPipeReqs == 2
\* number of calls of Collector.RecordError
MaxErrors == 2

(***************************************************************************)
(* Program constants                                                       *)
(***************************************************************************)
StatusOK == 200
StatusServiceUnavailable == 503

\* status codes handlers pass to WriteHeader
Codes == {200, 201, 404}
\* body chunks handlers pass to Write
Bodies == {"b1", "b2"}

\* the tasks that may call into one response observer
Tasks == {"t1", "t2"}

\* the requests, numbered in order of arrival
Reqs == 1..MaxReqs
\* inbound requests: <<r.Method, r.URL.Path>>
Inbound == {<<"GET", "/metrics">>, <<"GET", "/api/v1/users/1">>,
            <<"GET", "/api/v1/users/2">>, <<"POST", "/api/v1/users">>,
            <<"GET", "/nope/7">>}
\* r.URL.Path of GET /%ff: the byte 0xff is not valid UTF-8
BadPath == "/<0xff>"
\* the strings that are not valid UTF-8
InvalidUTF8 == {BadPath}
\* inbound requests, among them one whose path is not valid UTF-8
AnyInbound == {<<"GET", "/metrics">>, <<"GET", "/api/v1/users/1">>,
               <<"GET", BadPath>>}
\* the requests served while errors are recorded
ErrInbound == {<<"GET", "/api/v1/users/1">>}
\* the errorType arguments services pass to RecordError
ErrorTypes == {"db", "timeout"}
\* the path Collector.Middleware leaves uninstrumented
MetricsPath == "/metrics"
\* the route templates the service registers with the router
RouteTemplates == {"/metrics", "/api/v1/users/{id}", "/api/v1/users"}

VARIABLES
    rw,        \* the response observer under test: statusCode, written, sink
    rwKind,    \* "logging" or "metrics": which package's responseWriter it is
    callers,   \* the tasks that use the observer in this run
    calls,     \* the calls made on the observer so far, in call order
    tpc,       \* per task: the statement the task is at
    targ,      \* per task: the argument of the call in progress
    tret,      \* per task: where WriteHeader returns to ("idle" or "w_sink")
    reqs,             \* per request: pc, method, path, wrapped, ww, n
    useChi,           \* whether the request context carries a chi route context
    requestsInFlight, \* Collector.requestsInFlight (gauge)
    requestsTotal,    \* Collector.requestsTotal: <<method, path, status>> -> count
    requestDuration,  \* Collector.requestDuration: <<method, path>> -> observations
    checkers,  \* the checkers ReadinessHandler was built with, in order
    rd,        \* the readiness request in progress: pc, i, results, allOK, ctx
    returned,  \* what each checker invoked by this request returned, in order
    response,  \* the last readiness response: code, status, checks
    evals,     \* readiness requests answered so far
    late,      \* the request in progress has run well past its deadline
    live,      \* the last liveness response: code, status, and what the
               \* readiness side looked like when it was given
    pipe,      \* the request passing through trace.Middleware and
               \* Logger.Middleware: pc, headers, context, ww, logger
    events,    \* the log events written for that request, in order
    issued,    \* every token uuid.NewString() has returned, with its request
    debug,     \* the debug argument of NewLogger
    outside,   \* what FromContext returned when called outside a request
    errorsTotal, \* Collector.errorsTotal: <<type>> -> count
    recorded     \* the arguments of the RecordError calls made, in call order

rwVars == <<rw, rwKind, callers, calls, tpc, targ, tret>>

mwVars == <<reqs, useChi, requestsInFlight, requestsTotal, requestDuration>>

rdVars == <<checkers, rd, returned, response, evals, late, live>>

lgVars == <<pipe, events, issued, debug, outside>>

erVars == <<errorsTotal, recorded>>

vars == <<rwVars, mwVars, rdVars, lgVars, erVars>>

(***************************************************************************)
(* responseWriter: the struct and the statements of its two methods.       *)
(* sink is the sequence of calls the embedded http.ResponseWriter got.     *)
(***************************************************************************)
WHCall(code) == [op |-> "WriteHeader", arg |-> code]
WCall(b) == [op |-> "Write", arg |-> b]

\* logging: &responseWriter{ResponseWriter: w}; statusCode has Go's zero value
NewLoggingResponseWriter == [statusCode |-> 0, written |-> FALSE, sink |-> <<>>]

\* metrics: &responseWriter{ResponseWriter: w, statusCode: http.StatusOK}
NewMetricsResponseWriter == [statusCode |-> StatusOK, written |-> FALSE, sink |-> <<>>]

\* a guard that lets every call through
NotWrittenAlways(w) == TRUE

\* if !rw.written
NotWritten(w) == ~w.written

\* rw.statusCode = code
SetStatusCode(w, code) == [w EXCEPT !.statusCode = code]

\* rw.written = true
SetWritten(w) == [w EXCEPT !.written = TRUE]

\* rw.ResponseWriter.WriteHeader(code)
SinkWriteHeader(w, code) == [w EXCEPT !.sink = Append(@, WHCall(code))]

\* a delegation that forwards a different chunk
SinkWriteOther(w, b) == [w EXCEPT !.sink = Append(@, WCall("b1"))]

\* rw.ResponseWriter.Write(b)
SinkWrite(w, b) == [w EXCEPT !.sink = Append(@, WCall(b))]

\* WriteHeader run by one task without interruption
WriteHeader(w, code) ==
    IF NotWritten(w)
    THEN SinkWriteHeader(SetWritten(SetStatusCode(w, code)), code)
    ELSE w

\* Write run by one task without interruption
Write(w, b) ==
    SinkWrite(IF NotWritten(w) THEN WriteHeader(w, StatusOK) ELSE w, b)

(***************************************************************************)
(* Tasks calling the observer, one statement per step.  Neither method     *)
(* takes a lock, so statements of different tasks interleave.              *)
(***************************************************************************)
\* the calls a handler makes on its response writer before it returns
HandlerPrograms ==
    { <<>>,
      <<WCall("b1")>>,
      <<WHCall(201), WCall("b1")>>,
      <<WHCall(404), WCall("b2")>>,
      <<WHCall(201), WCall("b1"), WHCall(404)>> }

\* a request that has not reached the middleware; ww.sink is its response w
NoRequest ==
    [pc |-> "new", method |-> "", path |-> "", wrapped |-> FALSE,
     conc |-> FALSE, hpanic |-> FALSE,
     ww |-> [statusCode |-> 0, written |-> FALSE, sink |-> <<>>]]

\* no request has reached Collector.Middleware and no series exists
MwQuiet ==
    /\ reqs = [r \in Reqs |-> NoRequest]
    /\ useChi = TRUE
    /\ requestsInFlight = 0
    /\ requestsTotal = <<>>
    /\ requestDuration = <<>>
    /\ errorsTotal = <<>>
    /\ recorded = <<>>

\* a nil error
Nil == "<nil>"
\* the texts of the errors a dependency check returns
ErrTexts == {"db down"}
\* ctx.Err() after the deadline
DeadlineExceeded == "context deadline exceeded"

\* no readiness request is being served
RdIdle == [pc |-> "idle", i |-> 1, results |-> <<>>, allOK |-> TRUE, ctx |-> "none"]
NoResponse == [code |-> 0, status |-> "", checks |-> <<>>]
\* the liveness handler has not been called
NoLive == [code |-> 0, status |-> "", during |-> "idle", ready |-> 0]

\* a nil *zerolog.Logger / no logger yet
NoLogger == [addr |-> "nil", level |-> "", fields |-> <<>>]

\* no request has reached trace.Middleware or Logger.Middleware
PipeIdle ==
    [pc |-> "idle", n |-> 0, via |-> "", hTrace |-> "", hReq |-> "",
     method |-> "", path |-> "",
     ctx |-> <<>>, header |-> [xTraceID |-> "", xRequestID |-> ""],
     ww |-> NewLoggingResponseWriter, logger |-> NoLogger, got |-> NoLogger]

\* nothing was served or logged
LgQuiet ==
    /\ pipe = PipeIdle
    /\ events = <<>>
    /\ issued = <<>>
    /\ debug = FALSE
    /\ outside = NoLogger

\* a readiness handler without checkers that has served nothing
RdQuiet ==
    /\ checkers = <<>>
    /\ rd = RdIdle
    /\ returned = <<>>
    /\ response = NoResponse
    /\ evals = 0
    /\ late = FALSE
    /\ live = NoLive

\* an observer nobody calls
RwQuiet ==
    /\ rwKind = "metrics"
    /\ rw = NewMetricsResponseWriter
    /\ callers = {}
    /\ calls = <<>>
    /\ tpc = [t \in Tasks |-> "idle"]
    /\ targ = [t \in Tasks |-> 0]
    /\ tret = [t \in Tasks |-> "idle"]

RwInitWith(cs) ==
    /\ MwQuiet
    /\ RdQuiet
    /\ LgQuiet
    /\ rwKind \in {"logging", "metrics"}
    /\ rw = IF rwKind = "logging" THEN NewLoggingResponseWriter
                                  ELSE NewMetricsResponseWriter
    /\ callers = cs
    /\ calls = <<>>
    /\ tpc = [t \in Tasks |-> "idle"]
    /\ targ = [t \in Tasks |-> 0]
    /\ tret = [t \in Tasks |-> "idle"]

\* a task calls rw.WriteHeader(code)
CallWriteHeader(t) ==
    /\ t \in callers
    /\ tpc[t] = "idle"
    /\ Len(calls) < MaxCalls
    /\ \E code \in Codes :
          /\ targ' = [targ EXCEPT ![t] = code]
          /\ calls' = Append(calls, WHCall(code))
    /\ tpc' = [tpc EXCEPT ![t] = "wh_test"]
    /\ tret' = [tret EXCEPT ![t] = "idle"]
    /\ UNCHANGED <<rw, rwKind, callers>>
    /\ UNCHANGED <<mwVars, rdVars, lgVars, erVars>>

\* WriteHeader: if !rw.written { ... }
WriteHeaderTest(t) ==
    /\ tpc[t] = "wh_test"
    /\ tpc' = [tpc EXCEPT ![t] = IF NotWritten(rw) THEN "wh_status" ELSE tret[t]]
    /\ UNCHANGED <<rw, rwKind, callers, calls, targ, tret>>
    /\ UNCHANGED <<mwVars, rdVars, lgVars, erVars>>

\* WriteHeader: rw.statusCode = code
WriteHeaderStatus(t) ==
    /\ tpc[t] = "wh_status"
    /\ rw' = SetStatusCode(rw, IF tret[t] = "idle" THEN targ[t] ELSE StatusOK)
    /\ tpc' = [tpc EXCEPT ![t] = "wh_written"]
    /\ UNCHANGED <<rwKind, callers, calls, targ, tret>>
    /\ UNCHANGED <<mwVars, rdVars, lgVars, erVars>>

\* WriteHeader: rw.written = true
WriteHeaderWritten(t) ==
    /\ tpc[t] = "wh_written"
    /\ rw' = SetWritten(rw)
    /\ tpc' = [tpc EXCEPT ![t] = "wh_sink"]
    /\ UNCHANGED <<rwKind, callers, calls, targ, tret>>
    /\ UNCHANGED <<mwVars, rdVars, lgVars, erVars>>

\* WriteHeader: rw.ResponseWriter.WriteHeader(code), then return
WriteHeaderSink(t) ==
    /\ tpc[t] = "wh_sink"
    /\ rw' = SinkWriteHeader(rw, IF tret[t] = "idle" THEN targ[t] ELSE StatusOK)
    /\ tpc' = [tpc EXCEPT ![t] = tret[t]]
    /\ UNCHANGED <<rwKind, callers, calls, targ, tret>>
    /\ UNCHANGED <<mwVars, rdVars, lgVars, erVars>>

\* a task calls rw.Write(b)
CallWrite(t) ==
    /\ t \in callers
    /\ tpc[t] = "idle"
    /\ Len(calls) < MaxCalls
    /\ \E b \in Bodies :
          /\ targ' = [targ EXCEPT ![t] = b]
          /\ calls' = Append(calls, WCall(b))
    /\ tpc' = [tpc EXCEPT ![t] = "w_test"]
    /\ tret' = [tret EXCEPT ![t] = "idle"]
    /\ UNCHANGED <<rw, rwKind, callers>>
    /\ UNCHANGED <<mwVars, rdVars, lgVars, erVars>>

\* Write: if !rw.written { rw.WriteHeader(http.StatusOK) }
WriteTest(t) ==
    /\ tpc[t] = "w_test"
    /\ IF NotWritten(rw)
       THEN /\ tpc' = [tpc EXCEPT ![t] = "wh_test"]
            /\ tret' = [tret EXCEPT ![t] = "w_sink"]
       ELSE /\ tpc' = [tpc EXCEPT ![t] = "w_sink"]
            /\ UNCHANGED tret
    /\ UNCHANGED <<rw, rwKind, callers, calls, targ>>
    /\ UNCHANGED <<mwVars, rdVars, lgVars, erVars>>

\* Write: return rw.ResponseWriter.Write(b)
WriteSink(t) ==
    /\ tpc[t] = "w_sink"
    /\ rw' = SinkWrite(rw, targ[t])
    /\ tpc' = [tpc EXCEPT ![t] = "idle"]
    /\ tret' = [tret EXCEPT ![t] = "idle"]
    /\ UNCHANGED <<rwKind, callers, calls, targ>>
    /\ UNCHANGED <<mwVars, rdVars, lgVars, erVars>>

RwNext ==
    \E t \in Tasks :
        \/ CallWriteHeader(t)
        \/ WriteHeaderTest(t)
        \/ WriteHeaderStatus(t)
        \/ WriteHeaderWritten(t)
        \/ WriteHeaderSink(t)
        \/ CallWrite(t)
        \/ WriteTest(t)
        \/ WriteSink(t)

\* one task uses the observer
InitOneTask == RwInitWith({"t1"})
SpecOneTask == InitOneTask /\ [][RwNext]_vars

\* two tasks use the same observer concurrently
InitTwoTasks == RwInitWith(Tasks)
SpecTwoTasks == InitTwoTasks /\ [][RwNext]_vars


(***************************************************************************)
(* Collector.Middleware.  The Prometheus vectors are maps from label       *)
(* values to a number; WithLabelValues creates a series on first use and   *)
(* Inc, Dec and Observe are atomic.                                        *)
(***************************************************************************)
Digit(d) ==
    CASE d = 0 -> "0" [] d = 1 -> "1" [] d = 2 -> "2" [] d = 3 -> "3"
      [] d = 4 -> "4" [] d = 5 -> "5" [] d = 6 -> "6" [] d = 7 -> "7"
      [] d = 8 -> "8" [] d = 9 -> "9"

RECURSIVE UDecimal(_)
UDecimal(n) == IF n < 10 THEN Digit(n) ELSE UDecimal(n \div 10) \o Digit(n % 10)

\* strconv.Itoa
Itoa(n) == IF n < 0 THEN "-" \o UDecimal(0 - n) ELSE UDecimal(n)

\* a status label that keeps only the class of the code
StatusLabelClass(code) == Itoa(code \div 100)

\* strconv.Itoa(ww.statusCode)
StatusLabel(code) == Itoa(code)

\* an increment that forgets the count it found
VecIncLost(vec, key) == (key :> 1) @@ vec

\* vec.WithLabelValues(key...).Inc() and .Observe(d), counting the samples
VecInc(vec, key) ==
    IF key \in DOMAIN vec THEN [vec EXCEPT ![key] = @ + 1]
                          ELSE (key :> 1) @@ vec

\* a test that instruments every path
IsMetricsEndpointNever(path) == FALSE

\* if r.URL.Path == "/metrics"
IsMetricsEndpoint(path) == path = MetricsPath

\* the router: rctx.RoutePattern() once the request has been routed
RoutePattern(method, path) ==
    CASE path = "/metrics" -> "/metrics"
      [] method = "GET" /\ path \in {"/api/v1/users/1", "/api/v1/users/2"}
            -> "/api/v1/users/{id}"
      [] method = "POST" /\ path = "/api/v1/users" -> "/api/v1/users"
      [] OTHER -> ""

\* path := r.URL.Path; if rctx != nil && rctx.RoutePattern() != "" { path = ... }
PathLabel(method, path, chi) ==
    IF chi /\ RoutePattern(method, path) # ""
    THEN RoutePattern(method, path)
    ELSE path

\* utf8.ValidString, the test the vector applies to every label value
ValidString(str) == str \notin InvalidUTF8

\* whether the vector accepts the label values key
ValidLabelValues(key) == \A i \in 1..Len(key) : ValidString(key[i])

\* the labels of the request counter series a request is counted in
CounterKey(q) ==
    <<q.method, PathLabel(q.method, q.path, useChi), StatusLabel(q.ww.statusCode)>>

\* the labels of the duration series a request is observed in
DurationKey(q) == <<q.method, PathLabel(q.method, q.path, useChi)>>

\* one call of the next handler on the writer it was given: the observer ww
\* for an instrumented request, the sink itself for /metrics
HandlerCall(w, c, wrapped) ==
    IF c.op = "WriteHeader"
    THEN (IF wrapped THEN WriteHeader(w, c.arg) ELSE SinkWriteHeader(w, c.arg))
    ELSE (IF wrapped THEN Write(w, c.arg) ELSE SinkWrite(w, c.arg))

\* the next handler makes the calls of prog, in order
RECURSIVE RunHandler(_, _, _)
RunHandler(w, prog, wrapped) ==
    IF prog = <<>> THEN w
    ELSE RunHandler(HandlerCall(w, Head(prog), wrapped), Tail(prog), wrapped)

\* some request is between entering the middleware and leaving it
SomeInProgress ==
    \E o \in Reqs : reqs[o].pc \notin {"new", "done", "panicked", "unwound"}

\* a middleware that does its bookkeeping after next.ServeHTTP without defer:
\* a panic of the handler passes it by
OnReturnNoDefer(q, panicking) ==
    IF panicking THEN "unwound"
    ELSE IF q.wrapped THEN "defer_dec" ELSE "done"

\* where a request goes when next.ServeHTTP returns or panics: the deferred
\* function of an instrumented request runs either way
OnReturn(q, panicking) ==
    IF q.wrapped THEN "defer_dec"
    ELSE IF panicking THEN "unwound" ELSE "done"

MwInit ==
    /\ RwQuiet
    /\ RdQuiet
    /\ LgQuiet
    /\ reqs = [r \in Reqs |-> NoRequest]
    /\ useChi \in BOOLEAN
    /\ requestsInFlight = 0
    /\ requestsTotal = <<>>
    /\ requestDuration = <<>>
    /\ errorsTotal = <<>>
    /\ recorded = <<>>

\* a request reaches the middleware: the /metrics test, then
\* c.requestsInFlight.Inc() and ww := &responseWriter{...}; the next handler
\* is about to be called with ww (with w for /metrics)
Enter(r, inbound) ==
    /\ reqs[r].pc = "new"
    /\ IF r = 1 THEN TRUE ELSE reqs[r - 1].pc # "new"
    /\ \E q \in inbound :
          IF IsMetricsEndpoint(q[2])
          THEN /\ reqs' = [reqs EXCEPT ![r].pc = "next", ![r].method = q[1],
                                       ![r].path = q[2], ![r].wrapped = FALSE,
                                       ![r].conc = SomeInProgress]
               /\ UNCHANGED requestsInFlight
          ELSE /\ reqs' = [reqs EXCEPT ![r].pc = "next", ![r].method = q[1],
                                       ![r].path = q[2], ![r].wrapped = TRUE,
                                       ![r].conc = SomeInProgress,
                                       ![r].ww = NewMetricsResponseWriter]
               /\ requestsInFlight' = requestsInFlight + 1
    /\ UNCHANGED <<useChi, requestsTotal, requestDuration>>
    /\ UNCHANGED <<rwVars, rdVars, lgVars, erVars>>

\* next.ServeHTTP(ww, r) (next.ServeHTTP(w, r) for /metrics): the handler
\* makes its calls and returns; the deferred function is next for an
\* instrumented request
Serve(r) ==
    /\ reqs[r].pc = "next"
    /\ \E prog \in HandlerPrograms :
          reqs' = [reqs EXCEPT
                     ![r].ww = RunHandler(@, prog, reqs[r].wrapped),
                     ![r].pc = OnReturn(reqs[r], FALSE)]
    /\ UNCHANGED <<useChi, requestsInFlight, requestsTotal, requestDuration>>
    /\ UNCHANGED <<rwVars, rdVars, lgVars, erVars>>

\* next.ServeHTTP(ww, r) panics after the handler has made some calls
ServePanic(r) ==
    /\ reqs[r].pc = "next"
    /\ \E prog \in HandlerPrograms :
          reqs' = [reqs EXCEPT
                     ![r].ww = RunHandler(@, prog, reqs[r].wrapped),
                     ![r].hpanic = TRUE,
                     ![r].pc = OnReturn(reqs[r], TRUE)]
    /\ UNCHANGED <<useChi, requestsInFlight, requestsTotal, requestDuration>>
    /\ UNCHANGED <<rwVars, rdVars, lgVars, erVars>>

\* defer: c.requestsInFlight.Dec()
DeferDec(r) ==
    /\ reqs[r].pc = "defer_dec"
    /\ requestsInFlight' = requestsInFlight - 1
    /\ reqs' = [reqs EXCEPT ![r].pc = "defer_count"]
    /\ UNCHANGED <<useChi, requestsTotal, requestDuration>>
    /\ UNCHANGED <<rwVars, rdVars, lgVars, erVars>>

\* defer: c.requestsTotal.WithLabelValues(r.Method, path, status).Inc()
DeferCount(r) ==
    /\ reqs[r].pc = "defer_count"
    /\ ValidLabelValues(CounterKey(reqs[r]))
    /\ requestsTotal' = VecInc(requestsTotal, CounterKey(reqs[r]))
    /\ reqs' = [reqs EXCEPT ![r].pc = "defer_observe"]
    /\ UNCHANGED <<useChi, requestsInFlight, requestDuration>>
    /\ UNCHANGED <<rwVars, rdVars, lgVars, erVars>>

\* defer: WithLabelValues panics on a label value the vector rejects; the
\* deferred function has no recover, so the panic leaves the middleware
DeferCountPanic(r) ==
    /\ reqs[r].pc = "defer_count"
    /\ ~ValidLabelValues(CounterKey(reqs[r]))
    /\ reqs' = [reqs EXCEPT ![r].pc = "panicked"]
    /\ UNCHANGED <<useChi, requestsInFlight, requestsTotal, requestDuration>>
    /\ UNCHANGED <<rwVars, rdVars, lgVars, erVars>>

\* defer: c.requestDuration.WithLabelValues(r.Method, path).Observe(duration)
DeferObserve(r) ==
    /\ reqs[r].pc = "defer_observe"
    /\ requestDuration' = VecInc(requestDuration, DurationKey(reqs[r]))
    /\ reqs' = [reqs EXCEPT ![r].pc = IF reqs[r].hpanic THEN "unwound" ELSE "done"]
    /\ UNCHANGED <<useChi, requestsInFlight, requestsTotal>>
    /\ UNCHANGED <<rwVars, rdVars, lgVars, erVars>>

MwNext ==
    \E r \in Reqs :
        \/ Enter(r, Inbound)
        \/ Serve(r)
        \/ DeferDec(r)
        \/ DeferCount(r)
        \/ DeferObserve(r)

\* requests served concurrently by one Collector
SpecMW == MwInit /\ [][MwNext]_vars

\* a series key that puts every error type into one series
ErrorKeyFixed(t) == <<"db">>

\* the label values of the error counter series of type t
ErrorKey(t) == <<t>>

\* Collector.RecordError(errorType), called from anywhere at any time
RecordError(t) ==
    /\ Len(recorded) < MaxErrors
    /\ errorsTotal' = VecInc(errorsTotal, ErrorKey(t))
    /\ recorded' = Append(recorded, t)
    /\ UNCHANGED <<mwVars, rwVars, rdVars, lgVars>>

MwAnyNext ==
    \E r \in Reqs :
        \/ Enter(r, AnyInbound)
        \/ Serve(r)
        \/ ServePanic(r)
        \/ DeferDec(r)
        \/ DeferCount(r)
        \/ DeferCountPanic(r)
        \/ DeferObserve(r)

\* requests for any path, with handlers that may panic, served concurrently
\* by one Collector
SpecMWAny == MwInit /\ [][MwAnyNext]_vars

MwErrNext ==
    \/ \E r \in Reqs :
          \/ Enter(r, ErrInbound)
          \/ Serve(r)
          \/ DeferDec(r)
          \/ DeferCount(r)
          \/ DeferObserve(r)
    \/ \E t \in ErrorTypes : RecordError(t)

\* RecordError called while requests are served by the same Collector
SpecErrors == MwInit /\ [][MwErrNext]_vars

(***************************************************************************)
(* health: checkers and ReadinessHandler.  A Checker is a func value; the  *)
(* constructors return the method value nc.Call of a *namedChecker.        *)
(***************************************************************************)
\* the methods declared on a type of package health
MethodSet(type) ==
    CASE type = "*namedChecker" -> {"Name", "Call"}
      [] type = "Checker" -> {}

\* checker.Call of a &namedChecker{name: name, ...}: a func value that keeps
\* its receiver
NamedCheckerCall(name) == [type |-> "Checker", recv |-> "*namedChecker", name |-> name]

\* a func literal used as a Checker
PlainChecker == [type |-> "Checker", recv |-> "none", name |-> ""]

DatabaseChecker == NamedCheckerCall("database")
RedisChecker == NamedCheckerCall("redis")
HTTPChecker(name) == NamedCheckerCall(name)
CustomChecker(name) == NamedCheckerCall(name)

\* the checkers a service may hand to ReadinessHandler
Registrable ==
    {DatabaseChecker, RedisChecker, HTTPChecker("api"),
     CustomChecker("P1"), CustomChecker("P2"), PlainChecker}

\* name := "dependency"; if nameCtx, ok := checker.(interface{ Name() string }); ok
CheckerName(ch) ==
    IF "Name" \in MethodSet(ch.type) THEN ch.name ELSE "dependency"

\* a result that loses the error text
CheckResultNoText(name, err) ==
    [Name |-> name, Status |-> IF err # Nil THEN "error" ELSE "ok", Error |-> ""]

\* result := CheckResult{Name: name, Status: "ok"}; if err != nil { ... }
CheckResult(name, err) ==
    IF err # Nil
    THEN [Name |-> name, Status |-> "error", Error |-> err]
    ELSE [Name |-> name, Status |-> "ok", Error |-> ""]

\* a flag that follows the last checker only
AllOKLast(allOK, err) == err = Nil

\* if err != nil { allOK = false }
AllOK(allOK, err) == IF err # Nil THEN FALSE ELSE allOK

\* a collection that puts the newest result first
PrependResult(results, res) == <<res>> \o results

\* results = append(results, result)
AppendResult(results, res) == Append(results, res)

\* response := HealthResponse{...}; statusCode; w.WriteHeader(statusCode)
HealthResponse(allOK, results) ==
    IF allOK
    THEN [code |-> StatusOK, status |-> "ok", checks |-> results]
    ELSE [code |-> StatusServiceUnavailable, status |-> "error", checks |-> results]

\* a loop that stops at the first failing checker
NextCheckerBreak(i, err) == IF err # Nil THEN Len(checkers) + 1 ELSE i + 1

\* for _, checker := range checkers: the next iteration, whatever err was
NextChecker(i, err) == i + 1

\* what a checker called with ctx may return
CheckerOutcomes(ctx) ==
    {Nil} \cup ErrTexts \cup (IF ctx = "expired" THEN {DeadlineExceeded} ELSE {})

RECURSIVE SeqsUpTo(_, _)
SeqsUpTo(S, n) ==
    IF n = 0 THEN {<<>>}
    ELSE LET shorter == SeqsUpTo(S, n - 1)
         IN shorter \cup {Append(q, x) : q \in shorter, x \in S}

\* the record of one call checker(ctx): which checker, what it returned, the
\* state of ctx when it returned and the request that made the call
Returned(i, err) == [idx |-> i, err |-> err, ctx |-> rd.ctx, eval |-> evals + 1]

RdInit ==
    /\ RwQuiet
    /\ MwQuiet
    /\ LgQuiet
    /\ checkers \in SeqsUpTo(Registrable, MaxProbes)
    /\ rd = RdIdle
    /\ returned = <<>>
    /\ response = NoResponse
    /\ evals = 0
    /\ late = FALSE
    /\ live = NoLive

\* a readiness request arrives: ctx, cancel := context.WithTimeout(...);
\* results := make(...); allOK := true
RdStart ==
    /\ rd.pc \in {"idle", "responded"}
    /\ evals < MaxEvals
    /\ rd' = [pc |-> "loop", i |-> 1, results |-> <<>>, allOK |-> TRUE, ctx |-> "live"]
    /\ returned' = <<>>
    /\ late' = FALSE
    /\ UNCHANGED <<checkers, response, evals, live>>
    /\ UNCHANGED <<rwVars, mwVars, lgVars, erVars>>

\* the 5 seconds of the timeout pass while the request is being served
RdDeadline ==
    /\ rd.pc \in {"loop", "in_probe"}
    /\ rd.ctx = "live"
    /\ rd' = [rd EXCEPT !.ctx = "expired"]
    /\ UNCHANGED <<checkers, returned, response, evals, late, live>>
    /\ UNCHANGED <<rwVars, mwVars, lgVars, erVars>>

\* one iteration of for _, checker := range checkers
RdCheck ==
    /\ rd.pc = "loop"
    /\ rd.i <= Len(checkers)
    /\ \E err \in CheckerOutcomes(rd.ctx) :
          /\ rd' = [rd EXCEPT
                      !.results = AppendResult(@,
                                     CheckResult(CheckerName(checkers[rd.i]), err)),
                      !.allOK = AllOK(@, err),
                      !.i = NextChecker(@, err)]
          /\ returned' = Append(returned, Returned(rd.i, err))
    /\ UNCHANGED <<checkers, response, evals, late, live>>
    /\ UNCHANGED <<rwVars, mwVars, lgVars, erVars>>

\* a return that leaves the context as it is
CancelNever(ctx) == ctx

\* cancel(): the context is cancelled and its timer released
Cancel(ctx) == "cancelled"

\* after the loop: the response is built and written; defer cancel() runs
RdRespond ==
    /\ rd.pc = "loop"
    /\ rd.i > Len(checkers)
    /\ response' = HealthResponse(rd.allOK, rd.results)
    /\ rd' = [rd EXCEPT !.pc = "responded", !.ctx = Cancel(@)]
    /\ evals' = evals + 1
    /\ UNCHANGED <<checkers, returned, late, live>>
    /\ UNCHANGED <<rwVars, mwVars, lgVars, erVars>>

\* checker(ctx) is called and does not return at once
RdBlock ==
    /\ rd.pc = "loop"
    /\ rd.i <= Len(checkers)
    /\ rd' = [rd EXCEPT !.pc = "in_probe"]
    /\ UNCHANGED <<checkers, returned, response, evals, late, live>>
    /\ UNCHANGED <<rwVars, mwVars, lgVars, erVars>>

\* time goes on after the deadline while the handler waits in checker(ctx)
RdLate ==
    /\ rd.pc = "in_probe"
    /\ rd.ctx = "expired"
    /\ ~late
    /\ late' = TRUE
    /\ UNCHANGED <<checkers, rd, returned, response, evals, live>>
    /\ UNCHANGED <<rwVars, mwVars, lgVars, erVars>>

\* the checker the handler waits for returns; the iteration completes
RdUnblock ==
    /\ rd.pc = "in_probe"
    /\ \E err \in CheckerOutcomes(rd.ctx) :
          /\ rd' = [rd EXCEPT
                      !.pc = "loop",
                      !.results = AppendResult(@,
                                     CheckResult(CheckerName(checkers[rd.i]), err)),
                      !.allOK = AllOK(@, err),
                      !.i = NextChecker(@, err)]
          /\ returned' = Append(returned, Returned(rd.i, err))
    /\ UNCHANGED <<checkers, response, evals, late, live>>
    /\ UNCHANGED <<rwVars, mwVars, lgVars, erVars>>

\* a liveness answer that follows the last readiness answer
LivenessFollowsReadiness ==
    IF response.code = StatusServiceUnavailable
    THEN [code |-> StatusServiceUnavailable, status |-> "error"]
    ELSE [code |-> StatusOK, status |-> "ok"]

\* w.WriteHeader(http.StatusOK); Encode(map[string]string{"status": "ok"})
LivenessResponse == [code |-> StatusOK, status |-> "ok"]

\* a liveness request is served
Liveness ==
    /\ live' = [code |-> LivenessResponse.code, status |-> LivenessResponse.status,
                during |-> rd.pc, ready |-> response.code]
    /\ UNCHANGED <<checkers, rd, returned, response, evals, late>>
    /\ UNCHANGED <<rwVars, mwVars, lgVars, erVars>>

RdNext ==
    \/ RdStart
    \/ RdDeadline
    \/ RdCheck
    \/ RdRespond

\* readiness requests served one after another by one ReadinessHandler
SpecReady == RdInit /\ [][RdNext]_vars

\* a service with checkers that may take their time, and its liveness handler
HealthInit ==
    /\ RwQuiet
    /\ MwQuiet
    /\ LgQuiet
    /\ checkers \in SeqsUpTo({CustomChecker("P1"), PlainChecker}, MaxProbes)
    /\ rd = RdIdle
    /\ returned = <<>>
    /\ response = NoResponse
    /\ evals = 0
    /\ late = FALSE
    /\ live = NoLive

HealthNext ==
    \/ RdNext
    \/ RdBlock
    \/ RdLate
    \/ RdUnblock
    \/ Liveness

SpecHealth == HealthInit /\ [][HealthNext]_vars

(***************************************************************************)
(* trace.Middleware, Logger.Middleware and FromContext, serving one        *)
(* request after the other.  A context is the chain of context.WithValue   *)
(* calls, the latest last; a key is an interface value and so has a        *)
(* dynamic type and a value.  Time is not modelled: events carry no        *)
(* timestamp, http.remote_addr or duration_ms.                             *)
(***************************************************************************)
\* values of the X-Trace-ID and X-Request-ID request headers, "" when absent
InboundIDs == {"", "abc", "xyz"}
\* inbound requests: <<r.Method, r.URL.Path>>
PipeInbound == {<<"GET", "/api/v1/hello">>, <<"POST", "/api/v1/users">>}
\* the serviceName argument of NewLogger
ServiceName == "svc"
\* the middleware a request passes before it reaches the handler
Chains == {"trace+logging", "logging", "trace"}

\* the calls a handler behind Logger.Middleware makes on its response writer
LogPrograms ==
    HandlerPrograms
    \cup {<<WHCall(c)>> : c \in {399, 400, 499, 500}}
    \cup {<<WHCall(503), WCall("b1")>>}

\* const traceIDKey contextKey = "trace_id" (package trace)
TraceIDKey == [type |-> "trace.contextKey", name |-> "trace_id"]
\* const requestIDKey contextKey = "request_id" (package trace)
RequestIDKey == [type |-> "trace.contextKey", name |-> "request_id"]
\* const loggerKey contextKey = "logger" (package logging)
LoggerKey == [type |-> "logging.contextKey", name |-> "logger"]
\* an untyped string constant used as a key: ctx.Value("trace_id")
StringKey(name) == [type |-> "string", name |-> name]

\* the values stored in a context
StringValue(str) == [type |-> "string", s |-> str, lg |-> NoLogger]
LoggerValue(lg) == [type |-> "*zerolog.Logger", s |-> "", lg |-> lg]
\* what ctx.Value returns when no key matches
NilValue == [type |-> "nil", s |-> "", lg |-> NoLogger]

\* context.Background() as far as values go
Background == <<>>
\* context.WithValue(ctx, key, val)
WithValue(ctx, key, val) == Append(ctx, [key |-> key, val |-> val])

\* ctx.Value(key): the value of the latest WithValue whose key equals key,
\* keys being equal when type and value are equal
RECURSIVE Value(_, _)
Value(ctx, key) ==
    IF ctx = <<>> THEN NilValue
    ELSE IF ctx[Len(ctx)].key = key THEN ctx[Len(ctx)].val
    ELSE Value(SubSeq(ctx, 1, Len(ctx) - 1), key)

\* uuid.NewString(): the n-th token generated; a random UUID is taken never
\* to repeat
NewString(n) == "uuid-" \o Itoa(n)

\* an identifier that ignores the inbound header
ResolveIDFresh(inbound, fresh) == fresh

\* traceID := r.Header.Get(...); if traceID == "" { traceID = uuid.NewString() }
ResolveID(inbound, fresh) == IF inbound = "" THEN fresh ELSE inbound

\* TraceIDFromContext
TraceIDFromContext(ctx) ==
    LET v == Value(ctx, TraceIDKey) IN IF v.type = "string" THEN v.s ELSE ""

\* RequestIDFromContext
RequestIDFromContext(ctx) ==
    LET v == Value(ctx, RequestIDKey) IN IF v.type = "string" THEN v.s ELSE ""

\* the tokens issued when the headers inT and inR are resolved in this order
IssueFor(n, inT, inR) ==
    LET first == IF inT = ""
                 THEN Append(issued, [req |-> n, token |-> NewString(Len(issued) + 1)])
                 ELSE issued
    IN IF inR = ""
       THEN Append(first, [req |-> n, token |-> NewString(Len(first) + 1)])
       ELSE first

\* trace.Middleware up to next.ServeHTTP
TraceMiddleware ==
    /\ pipe.pc = "trace"
    /\ LET traceID == ResolveID(pipe.hTrace, NewString(Len(issued) + 1))
           afterT == IF pipe.hTrace = "" THEN Len(issued) + 1 ELSE Len(issued)
           requestID == ResolveID(pipe.hReq, NewString(afterT + 1))
           ctx == WithValue(WithValue(pipe.ctx, TraceIDKey, StringValue(traceID)),
                            RequestIDKey, StringValue(requestID))
       IN pipe' = [pipe EXCEPT
                     !.ctx = ctx,
                     !.header = [xTraceID |-> traceID, xRequestID |-> requestID],
                     !.pc = IF pipe.via = "trace" THEN "handler" ELSE "logging"]
    /\ issued' = IssueFor(pipe.n, pipe.hTrace, pipe.hReq)
    /\ UNCHANGED <<events, debug, outside>>
    /\ UNCHANGED <<rwVars, mwVars, rdVars, erVars>>

\* Str(key, val) and Int(key, val) of an event or of a logger's context
StrField(k, str) == [k |-> k, kind |-> "str", s |-> str, n |-> 0]
IntField(k, num) == [k |-> k, kind |-> "int", s |-> "", n |-> num]

\* NewLogger(serviceName, debug).Logger
NewLogger(serviceName, dbg) ==
    [addr |-> "base",
     level |-> IF dbg THEN "debug" ELSE "info",
     fields |-> <<StrField("service", serviceName)>>]

\* logger.With().Str(k, str).Logger()
With(logger, field) == [logger EXCEPT !.fields = Append(@, field)]

\* if v := ctx.Value(name); v != nil { if id, ok := v.(string); ok { ... } }
AddFromContext(logger, ctx, name) ==
    LET v == Value(ctx, StringKey(name))
    IN IF v # NilValue /\ v.type = "string"
       THEN With(logger, StrField(name, v.s))
       ELSE logger

\* Logger.WithContext
WithContext(l, ctx) ==
    AddFromContext(
        AddFromContext(AddFromContext(l, ctx, "trace_id"), ctx, "request_id"),
        ctx, "user_id")

\* zerolog levels in increasing order
LevelRank(level) ==
    CASE level = "debug" -> 0 [] level = "info" -> 1
      [] level = "warn" -> 2 [] level = "error" -> 3

\* logger.<Level>().<fields>.Msg(msg): written unless below the logger's level
Emit(evs, logger, level, msg, fields) ==
    IF LevelRank(level) >= LevelRank(logger.level)
    THEN Append(evs, [level |-> level, msg |-> msg, by |-> logger.addr,
                      fields |-> logger.fields \o fields])
    ELSE evs

\* zerolog.New(os.Stdout).With().Timestamp().Logger()
DefaultLogger == [addr |-> "new", level |-> "debug", fields |-> <<>>]

\* a lookup with the untyped string constant "logger" as key
FromContextStringKey(ctx) ==
    LET v == Value(ctx, StringKey("logger"))
    IN IF v.type = "*zerolog.Logger" THEN v.lg ELSE DefaultLogger

\* FromContext
FromContext(ctx) ==
    LET v == Value(ctx, LoggerKey)
    IN IF v.type = "*zerolog.Logger" THEN v.lg ELSE DefaultLogger

\* a level choice that takes the boundary codes 400 and 500 for the class below
LogEventLevelAbove(statusCode) ==
    IF statusCode > 500 THEN "error"
    ELSE IF statusCode > 400 THEN "warn"
    ELSE "info"

\* logEvent := logger.Info(); if ww.statusCode >= 500 {...} else if >= 400 {...}
LogEventLevel(statusCode) ==
    IF statusCode >= 500 THEN "error"
    ELSE IF statusCode >= 400 THEN "warn"
    ELSE "info"

\* a request arrives at the outermost middleware of its chain
PipeArrive ==
    /\ pipe.pc \in {"idle", "done"}
    /\ pipe.n < MaxPipeReqs
    /\ \E via \in Chains, q \in PipeInbound, t \in InboundIDs, i \in InboundIDs :
          pipe' = [PipeIdle EXCEPT
                     !.pc = IF via = "logging" THEN "logging" ELSE "trace",
                     !.n = pipe.n + 1,
                     !.via = via,
                     !.method = q[1],
                     !.path = q[2],
                     !.hTrace = t,
                     !.hReq = i]
    /\ events' = <<>>
    /\ UNCHANGED <<issued, debug, outside>>
    /\ UNCHANGED <<rwVars, mwVars, rdVars, erVars>>

\* Logger.Middleware up to next.ServeHTTP: the request logger, the
\* "request started" event, ww and the context that carries &logger
LoggerMiddlewareBefore ==
    /\ pipe.pc = "logging"
    /\ LET logger == [WithContext(NewLogger(ServiceName, debug), pipe.ctx)
                        EXCEPT !.addr = "logger@" \o Itoa(pipe.n)]
       IN /\ events' = Emit(events, logger, "debug", "request started",
                            <<StrField("http.method", pipe.method),
                              StrField("http.path", pipe.path)>>)
          /\ pipe' = [pipe EXCEPT
                        !.logger = logger,
                        !.ww = NewLoggingResponseWriter,
                        !.ctx = WithValue(@, LoggerKey, LoggerValue(logger)),
                        !.pc = "handler"]
    /\ UNCHANGED <<issued, debug, outside>>
    /\ UNCHANGED <<rwVars, mwVars, rdVars, erVars>>

\* the handler: logger := FromContext(r.Context()), possibly an event through
\* it, then its calls on the response writer it was given
PipeHandler ==
    /\ pipe.pc = "handler"
    /\ \E prog \in LogPrograms, logs \in BOOLEAN :
          LET got == FromContext(pipe.ctx)
          IN /\ pipe' = [pipe EXCEPT
                           !.got = got,
                           !.ww = RunHandler(@, prog, pipe.via # "trace"),
                           !.pc = IF pipe.via = "trace" THEN "done"
                                                        ELSE "completing"]
             /\ events' = IF logs
                          THEN Emit(events, got, "info", "Hello endpoint called", <<>>)
                          ELSE events
    /\ UNCHANGED <<issued, debug, outside>>
    /\ UNCHANGED <<rwVars, mwVars, rdVars, erVars>>

\* Logger.Middleware after next.ServeHTTP: the "request completed" event
LoggerMiddlewareAfter ==
    /\ pipe.pc = "completing"
    /\ events' = Emit(events, pipe.logger, LogEventLevel(pipe.ww.statusCode),
                      "request completed",
                      <<StrField("http.method", pipe.method),
                        StrField("http.path", pipe.path),
                        IntField("http.status", pipe.ww.statusCode)>>)
    /\ pipe' = [pipe EXCEPT !.pc = "done"]
    /\ UNCHANGED <<issued, debug, outside>>
    /\ UNCHANGED <<rwVars, mwVars, rdVars, erVars>>

\* FromContext(context.Background()), called outside request processing
LogOutside ==
    /\ outside = NoLogger
    /\ outside' = FromContext(Background)
    /\ UNCHANGED <<pipe, events, issued, debug>>
    /\ UNCHANGED <<rwVars, mwVars, rdVars, erVars>>

PipeInit ==
    /\ RwQuiet
    /\ MwQuiet
    /\ RdQuiet
    /\ pipe = PipeIdle
    /\ events = <<>>
    /\ issued = <<>>
    /\ debug \in BOOLEAN
    /\ outside = NoLogger

PipeNext ==
    \/ PipeArrive
    \/ TraceMiddleware
    \/ LoggerMiddlewareBefore
    \/ PipeHandler
    \/ LoggerMiddlewareAfter
    \/ LogOutside

\* requests served one after the other through the middleware chain
SpecPipe == PipeInit /\ [][PipeNext]_vars

(***************************************************************************)
(* Collector.Middleware around Logger.Middleware, as the example wires     *)
(* them: the handler writes to the logging observer, whose embedded        *)
(* ResponseWriter is the metrics observer.  Requests are served one after  *)
(* the other.                                                              *)
(***************************************************************************)
\* the inbound requests Collector.Middleware instruments
StackInbound == {q \in Inbound : ~IsMetricsEndpoint(q[2])}

StackInit ==
    /\ RwQuiet
    /\ RdQuiet
    /\ reqs = [r \in Reqs |-> NoRequest]
    /\ useChi \in BOOLEAN
    /\ requestsInFlight = 0
    /\ requestsTotal = <<>>
    /\ requestDuration = <<>>
    /\ errorsTotal = <<>>
    /\ recorded = <<>>
    /\ pipe = PipeIdle
    /\ events = <<>>
    /\ issued = <<>>
    /\ debug \in BOOLEAN
    /\ outside = NoLogger

\* a request passes Collector.Middleware up to next.ServeHTTP(ww, r), where
\* next is Logger.Middleware
StackEnter(r) ==
    /\ reqs[r].pc = "new"
    /\ IF r = 1 THEN TRUE ELSE reqs[r - 1].pc = "done"
    /\ \E q \in StackInbound :
          /\ reqs' = [reqs EXCEPT ![r].pc = "next", ![r].method = q[1],
                                  ![r].path = q[2], ![r].wrapped = TRUE,
                                  ![r].ww = NewMetricsResponseWriter]
          /\ pipe' = [PipeIdle EXCEPT !.pc = "logging", !.n = r,
                                      !.via = "logging",
                                      !.method = q[1], !.path = q[2]]
    /\ requestsInFlight' = requestsInFlight + 1
    /\ events' = <<>>
    /\ UNCHANGED <<useChi, requestsTotal, requestDuration>>
    /\ UNCHANGED <<issued, debug, outside>>
    /\ UNCHANGED <<rwVars, rdVars, erVars>>

\* the handler makes its calls on the logging observer; what that observer
\* hands on to its embedded ResponseWriter are calls on the metrics observer
StackHandler(r) ==
    /\ reqs[r].pc = "next"
    /\ pipe.n = r
    /\ pipe.pc = "handler"
    /\ \E prog \in HandlerPrograms :
          LET inner == RunHandler(pipe.ww, prog, TRUE)
          IN /\ pipe' = [pipe EXCEPT !.ww = inner,
                                     !.got = FromContext(pipe.ctx),
                                     !.pc = "completing"]
             /\ reqs' = [reqs EXCEPT ![r].ww = RunHandler(@, inner.sink, TRUE)]
    /\ UNCHANGED <<useChi, requestsInFlight, requestsTotal, requestDuration>>
    /\ UNCHANGED <<events, issued, debug, outside>>
    /\ UNCHANGED <<rwVars, rdVars, erVars>>

\* Logger.Middleware returns into Collector.Middleware, whose deferred
\* function is next
StackReturn(r) ==
    /\ reqs[r].pc = "next"
    /\ pipe.n = r
    /\ pipe.pc = "done"
    /\ reqs' = [reqs EXCEPT ![r].pc = OnReturn(reqs[r], FALSE)]
    /\ UNCHANGED <<useChi, requestsInFlight, requestsTotal, requestDuration>>
    /\ UNCHANGED <<lgVars, rwVars, rdVars, erVars>>

StackNext ==
    \/ \E r \in Reqs :
          \/ StackEnter(r)
          \/ StackHandler(r)
          \/ StackReturn(r)
          \/ DeferDec(r)
          \/ DeferCount(r)
          \/ DeferObserve(r)
    \/ LoggerMiddlewareBefore
    \/ LoggerMiddlewareAfter

\* requests served through the metrics and the logging middleware
SpecStack == StackInit /\ [][StackNext]_vars

(***************************************************************************)
(* Properties of the response observer                                     *)
(***************************************************************************)
IsWrite(c) == c.op = "Write"

\* the status the first call of cs fixes
FirstCallStatus(cs) == IF cs[1].op = "WriteHeader" THEN cs[1].arg ELSE StatusOK

\* what the sink gets when every call is handed on as made
AllCallsForwarded(cs) ==
    IF cs # <<>> /\ IsWrite(cs[1]) THEN <<WHCall(StatusOK)>> \o cs ELSE cs

\* what the sink gets when only the first header and the Writes are handed on
FirstHeaderAndWrites(cs) ==
    IF cs = <<>> THEN <<>>
    ELSE <<WHCall(FirstCallStatus(cs))>> \o SelectSeq(cs, IsWrite)

\* C1: with one task calling, once the observer is written its recorded
\* status is the code of the first call if that was a WriteHeader and 200 if
\* it was a Write, and it stays so after every later call; the first call
\* leaves the observer written.
C1_FirstCallFixesStatus ==
    /\ rw.written => rw.statusCode = FirstCallStatus(calls)
    /\ (calls # <<>> /\ tpc["t1"] = "idle") => rw.written

\* C1 witness: WriteHeader(201), Write, WriteHeader(404) all returned and the
\* recorded status is 201
C1_Witness ==
    /\ callers = {"t1"}
    /\ tpc["t1"] = "idle"
    /\ calls = <<WHCall(201), WCall("b1"), WHCall(404)>>
    /\ rw.statusCode = 201

\* C2: with two tasks calling concurrently, the recorded status is assigned
\* once: after the observer is written no step changes the recorded status.
C2_StatusNeverOverwritten ==
    [][rw.written => rw'.statusCode = rw.statusCode]_vars

\* C3 as stated: with one task calling, whenever no call is in progress the
\* sink has received exactly the calls made on the observer, in order (after
\* the implicit WriteHeader(200) when a Write came first).
C3_EveryCallForwarded ==
    tpc["t1"] = "idle" => rw.sink = AllCallsForwarded(calls)

\* C3 amended: with one task calling, whenever no call is in progress the
\* sink has received the header of the first call (its code, or 200 for a
\* Write) followed by every Write call with its own argument, in call order;
\* WriteHeader calls after the first call are not handed on, and the recorded
\* status is the first call's.
C3_WritesForwardedHeadersDropped ==
    tpc["t1"] = "idle" =>
        /\ rw.sink = FirstHeaderAndWrites(calls)
        /\ calls # <<>> => rw.statusCode = FirstCallStatus(calls)

\* C3 witness: WriteHeader(201), Write(b2), WriteHeader(404) returned; the
\* sink got the first header and the Write only
C3_Witness ==
    /\ callers = {"t1"}
    /\ tpc["t1"] = "idle"
    /\ calls = <<WHCall(201), WCall("b2"), WHCall(404)>>
    /\ rw.sink = <<WHCall(201), WCall("b2")>>

(***************************************************************************)
(* Properties of Collector.Middleware                                      *)
(***************************************************************************)
\* the value of a series; a series that was never created counts as 0
SeriesValue(vec, key) == IF key \in DOMAIN vec THEN vec[key] ELSE 0

\* decimal text of the status codes handlers produce
StatusText(c) ==
    CASE c = 200 -> "200" [] c = 201 -> "201" [] c = 404 -> "404"

\* decimal text of a status code's class
StatusClassText(c) ==
    CASE c \in 200..299 -> "2" [] c \in 400..499 -> "4"

\* the status codes a request can end with
HandlerCodes == {200, 201, 404}

\* an instrumented request whose counter increment has been made
Counted(r) == reqs[r].wrapped /\ reqs[r].pc \in {"defer_observe", "done"}

AllDone == \A r \in Reqs : reqs[r].pc = "done"

\* C4: behind the router, for every method, route template and status code
\* the request counter of that label set equals the number of instrumented
\* requests with that method, matched template and recorded status that have
\* been counted, whatever the interleaving (no increment is lost); and once
\* every request has completed the in-flight gauge is back at its initial 0.
C4_NoLostUpdates ==
    /\ useChi =>
          \A q \in Inbound, c \in HandlerCodes :
             RoutePattern(q[1], q[2]) # "" =>
                SeriesValue(requestsTotal,
                            <<q[1], RoutePattern(q[1], q[2]), StatusText(c)>>)
                = Cardinality({r \in Reqs :
                      /\ Counted(r)
                      /\ reqs[r].method = q[1]
                      /\ RoutePattern(reqs[r].method, reqs[r].path)
                            = RoutePattern(q[1], q[2])
                      /\ reqs[r].ww.statusCode = c})
    /\ AllDone => requestsInFlight = 0

\* C4 witness: two overlapping GET requests for /api/v1/users/{id} (raw paths
\* .../1 and .../2), both answered 200, have completed; their series is at 2
C4_Witness ==
    /\ useChi
    /\ AllDone
    /\ reqs[1].path = "/api/v1/users/1" /\ reqs[2].path = "/api/v1/users/2"
    /\ reqs[1].ww.statusCode = 200 /\ reqs[2].ww.statusCode = 200
    /\ reqs[2].conc
    /\ SeriesValue(requestsTotal, <<"GET", "/api/v1/users/{id}", "200">>) = 2
    /\ requestsInFlight = 0

\* C5: the path label of every request counter series and of every duration
\* series is one of the route templates the service registers.
C5_PathLabelIsRouteTemplate ==
    /\ \A k \in DOMAIN requestsTotal : k[2] \in RouteTemplates
    /\ \A k \in DOMAIN requestDuration : k[2] \in RouteTemplates

C7_MetricsEndpointNotInstrumented ==
    [][\A r \in Reqs :
          (reqs'[r].path = MetricsPath /\ reqs'[r] # reqs[r]) =>
             /\ requestsTotal' = requestsTotal
             /\ requestDuration' = requestDuration
             /\ requestsInFlight' = requestsInFlight
             /\ reqs[r].pc = "new" => (reqs'[r].pc = "next" /\ ~reqs'[r].wrapped)]_vars

\* C7 witness: a /metrics request was served by the next handler and has
\* completed while an instrumented request was in flight; the gauge counts
\* only the latter and no series exists
C7_Witness ==
    /\ reqs[2].path = MetricsPath
    /\ reqs[2].pc = "done"
    /\ reqs[2].ww.sink # <<>>
    /\ reqs[1].pc = "next" /\ reqs[1].wrapped
    /\ requestsInFlight = 1
    /\ requestsTotal = <<>>
    /\ requestDuration = <<>>

(***************************************************************************)
(* Properties of ReadinessHandler                                          *)
(***************************************************************************)
\* every registered checker was invoked by this request and returned nil
EveryProbePassed ==
    /\ Len(returned) = Len(checkers)
    /\ \A i \in 1..Len(returned) : returned[i].err = Nil

\* C8: when a readiness request has been answered, the response is 200 with
\* status "ok" if every checker returned no error, and 503 with status
\* "error" otherwise; with no checkers it is 200/"ok".
C8_VerdictIsConjunction ==
    rd.pc = "responded" =>
        /\ EveryProbePassed => (response.code = 200 /\ response.status = "ok")
        /\ ~EveryProbePassed => (response.code = 503 /\ response.status = "error")
        /\ checkers = <<>> => (response.code = 200 /\ response.status = "ok")

\* C8 witness: the first checker failed, the second passed, and the answer
\* is 503/"error"
C8_Witness ==
    /\ rd.pc = "responded"
    /\ Len(checkers) = 2
    /\ returned[1].err = "db down" /\ returned[2].err = Nil
    /\ response.code = 503 /\ response.status = "error"

\* C9: when a readiness request has been answered, the checks of the
\* response are one entry per registered checker, entry i being the outcome
\* of the i-th registered checker: status "error" with the checker's error
\* text if it returned an error, status "ok" without error text otherwise.
C9_OneResultPerProbeInOrder ==
    rd.pc = "responded" =>
        /\ Len(response.checks) = Len(checkers)
        /\ Len(returned) = Len(checkers)
        /\ \A i \in 1..Len(checkers) :
              /\ returned[i].idx = i
              /\ IF returned[i].err # Nil
                 THEN /\ response.checks[i].Status = "error"
                      /\ response.checks[i].Error = returned[i].err
                 ELSE /\ response.checks[i].Status = "ok"
                      /\ response.checks[i].Error = ""

\* C9 witness: the first checker failed with "db down", the second passed,
\* and both are in the response in that order
C9_Witness ==
    /\ rd.pc = "responded"
    /\ Len(checkers) = 2
    /\ returned[1].err = "db down" /\ returned[2].err = Nil
    /\ Len(response.checks) = 2
    /\ response.checks[1].Status = "error" /\ response.checks[1].Error = "db down"
    /\ response.checks[2].Status = "ok"

\* C10: when a readiness request has been answered, entry i of the checks
\* carries the name the i-th checker was constructed with ("database",
\* "redis", or the name given to HTTPChecker or CustomChecker).
C10_ResultCarriesRegisteredName ==
    rd.pc = "responded" =>
        \A i \in 1..Len(response.checks) :
           (i <= Len(checkers) /\ checkers[i].recv = "*namedChecker") =>
              response.checks[i].Name = checkers[i].name

\* C11: a readiness request is never answered after time has run well past
\* its deadline.
C11_VerdictByDeadline == rd.pc = "responded" => ~late

\* C12: when a readiness request has been answered, every checker that
\* returned only after the deadline had elapsed has a result with status
\* "error", and if there is such a checker the answer is 503.
C12_LateProbeFails ==
    rd.pc = "responded" =>
        \A i \in 1..Len(returned) :
           returned[i].ctx = "expired" =>
              /\ response.checks[i].Status = "error"
              /\ response.code = 503

\* C17: every liveness response is 200 with status "ok", whatever checkers
\* are registered, whatever the last readiness answer was and whether or not
\* a readiness request is in progress.
C17_LivenessAlwaysOk ==
    live # NoLive => (live.code = 200 /\ live.status = "ok")

\* C17 witness: the liveness handler answered 200/"ok" while a readiness
\* request was waiting in a checker and the last readiness answer was 503
C17_Witness ==
    /\ live.code = 200 /\ live.status = "ok"
    /\ live.during = "in_probe"
    /\ live.ready = 503
    /\ checkers # <<>>

\* C20: in every readiness request the checkers are called one after the
\* other in registration order, each exactly once and each by this request
\* (with this request's context): the calls made so far are those of
\* checkers 1..i-1, also after a checker has failed, and when the request is
\* answered every registered checker has been called once.
C20_EveryProbeOncePerEvaluation ==
    rd.pc \in {"loop", "responded"} =>
        /\ Len(returned) = rd.i - 1
        /\ \A j \in 1..Len(returned) :
              /\ returned[j].idx = j
              /\ returned[j].eval = IF rd.pc = "responded" THEN evals ELSE evals + 1
        /\ rd.pc = "responded" => Len(returned) = Len(checkers)

\* C20 witness: the first request was answered 503; the second request has
\* called both checkers again and both passed this time
C20_Witness ==
    /\ evals = 1
    /\ response.code = 503
    /\ rd.pc = "loop"
    /\ Len(checkers) = 2
    /\ Len(returned) = 2
    /\ returned[1].eval = 2 /\ returned[2].eval = 2
    /\ returned[1].err = Nil /\ returned[2].err = Nil
    /\ rd.allOK

(***************************************************************************)
(* Properties of trace.Middleware, Logger.Middleware and FromContext       *)
(***************************************************************************)
\* the request has passed trace.Middleware
Traced == pipe.via \in {"trace+logging", "trace"} /\ pipe.pc \notin {"idle", "trace"}

\* the request has passed Logger.Middleware and the handler and was logged
Logged == pipe.via \in {"trace+logging", "logging"} /\ pipe.pc = "done"

\* the tokens generated for request n
TokensOf(n) == {issued[i].token : i \in {j \in 1..Len(issued) : issued[j].req = n}}

\* the inbound value came back, or else one new token did
RoundTrip(inbound, header, fromCtx) ==
    /\ header = fromCtx
    /\ IF inbound # ""
       THEN header = inbound
       ELSE header # "" /\ header \in TokensOf(pipe.n)

\* C13: once a request has passed trace.Middleware, for each of X-Trace-ID
\* and X-Request-ID the response header and the value read from the
\* downstream context are the same; they are the inbound value if that is
\* not empty and otherwise a non-empty token generated for this request; and
\* no token was generated twice.
C13_TraceRoundTrip ==
    /\ Traced =>
          /\ RoundTrip(pipe.hTrace, pipe.header.xTraceID,
                       TraceIDFromContext(pipe.ctx))
          /\ RoundTrip(pipe.hReq, pipe.header.xRequestID,
                       RequestIDFromContext(pipe.ctx))
    /\ \A i, j \in 1..Len(issued) : i # j => issued[i].token # issued[j].token

\* C13 witness: the second request brought a trace id and no request id; it
\* got its trace id back and a request id that differs from the two tokens
\* generated for the first request
C13_Witness ==
    /\ Traced
    /\ pipe.n = 2
    /\ pipe.hTrace = "abc" /\ pipe.hReq = ""
    /\ pipe.header.xTraceID = "abc"
    /\ TraceIDFromContext(pipe.ctx) = "abc"
    /\ Len(issued) = 3
    /\ pipe.header.xRequestID = issued[3].token
    /\ RequestIDFromContext(pipe.ctx) = issued[3].token
    /\ issued[3].token \notin TokensOf(1)

\* the text of field k of event e, "" when e has no such field
FieldText(e, k) ==
    LET at == {i \in 1..Len(e.fields) : e.fields[i].k = k}
    IN IF at = {} THEN "" ELSE e.fields[CHOOSE i \in at : TRUE].s

\* C14: when a request has passed trace.Middleware, Logger.Middleware and
\* the handler, every event written for it has a trace_id field and a
\* request_id field equal to the identifiers in the request context.
C14_EventsCarryTraceContext ==
    (Logged /\ pipe.via = "trace+logging") =>
        \A i \in 1..Len(events) :
           /\ FieldText(events[i], "trace_id") = TraceIDFromContext(pipe.ctx)
           /\ FieldText(events[i], "request_id") = RequestIDFromContext(pipe.ctx)

\* the "request completed" events written for the request
Completed == SelectSeq(events, LAMBDA e : e.msg = "request completed")

\* the number in field k of event e
FieldNumber(e, k) ==
    e.fields[CHOOSE i \in 1..Len(e.fields) : e.fields[i].k = k].n

\* C15: when a request has passed Logger.Middleware there is exactly one
\* "request completed" event, and with s the status the observer recorded
\* its level is error if s >= 500, warn if 400 <= s < 500 and info otherwise.
C15_SeverityFollowsStatus ==
    Logged =>
        /\ Len(Completed) = 1
        /\ LET s == pipe.ww.statusCode
               level == Completed[1].level
           IN /\ s >= 500 => level = "error"
              /\ (400 <= s /\ s < 500) => level = "warn"
              /\ s < 400 => level = "info"

\* C15 witness: a handler answered 400 and the event is a warning
C15_Witness ==
    /\ Logged
    /\ pipe.ww.sink = <<WHCall(400)>>
    /\ Len(Completed) = 1
    /\ Completed[1].level = "warn"

\* the status the response is sent with: that of the first call the
\* underlying writer got, 200 when the handler returned without any call
FinalStatus(sink) == IF sink = <<>> THEN StatusOK ELSE FirstCallStatus(sink)

\* C16: when a request has passed Logger.Middleware, the http.status field
\* of its "request completed" event is the status the response is sent with.
C16_CompletedCarriesFinalStatus ==
    Logged =>
        \A i \in 1..Len(Completed) :
           FieldNumber(Completed[i], "http.status") = FinalStatus(pipe.ww.sink)

\* C18: FromContext always returns a logger, never nil: in a handler behind
\* Logger.Middleware the logger the middleware made for this request, and
\* for a context that carries no logger (a handler that is not behind
\* Logger.Middleware, a call outside request processing) a new logger that
\* writes the events logged through it.
C18_FromContextNeverFails ==
    /\ pipe.pc \in {"completing", "done"} =>
          /\ pipe.got # NoLogger
          /\ IF pipe.via = "trace"
             THEN pipe.got = DefaultLogger
             ELSE /\ pipe.got = pipe.logger
                  /\ pipe.got.addr = "logger@" \o Itoa(pipe.n)
          /\ \A i \in 1..Len(events) :
                events[i].msg = "Hello endpoint called" => events[i].by = pipe.got.addr
    /\ outside \in {NoLogger, DefaultLogger}

\* C18 witness: the second request is behind Logger.Middleware and its
\* handler logged through the logger attached for it, after FromContext was
\* called outside a request and returned a new logger
C18_Witness ==
    /\ pipe.pc = "done"
    /\ pipe.n = 2
    /\ pipe.via = "trace+logging"
    /\ pipe.got = pipe.logger
    /\ pipe.got.addr = "logger@2"
    /\ \E i \in 1..Len(events) :
          events[i].msg = "Hello endpoint called" /\ events[i].by = "logger@2"
    /\ outside = DefaultLogger

\* C19: no request is cut short by a failure to record its metrics: the
\* deferred recording never ends in a panic that leaves the middleware.
C19_RecordingNeverAborts == \A r \in Reqs : reqs[r].pc # "panicked"

\* C21: whenever a readiness request has been answered the context its
\* checkers were given is cancelled, with either verdict and whether or not
\* the deadline had passed; and a checker is only ever waited for on a
\* context of a request that has not been answered yet.
C21_ContextCancelledOnReturn ==
    /\ rd.pc = "responded" => rd.ctx = "cancelled"
    /\ rd.pc = "in_probe" => rd.ctx \in {"live", "expired"}
    /\ rd.ctx \in {"live", "expired"} => rd.pc \in {"loop", "in_probe"}

\* C21 witness: a request whose last checker returned nil after the deadline
\* was answered 200 and its context is cancelled
C21_Witness ==
    /\ rd.pc = "responded"
    /\ rd.ctx = "cancelled"
    /\ response.code = 200
    /\ returned # <<>>
    /\ returned[Len(returned)].ctx = "expired"

(***************************************************************************)
(* Properties of the Collector as a whole                                  *)
(***************************************************************************)
\* C22: every call RecordError(t) adds exactly one to the error counter
\* series of type t and leaves every other error series, the request
\* counter, the duration histogram and the in-flight gauge as they were,
\* also while requests are in progress; and nothing else changes the error
\* counter.
C22_RecordErrorFrame ==
    [][IF recorded' # recorded
       THEN LET t == recorded'[Len(recorded')]
            IN /\ SeriesValue(errorsTotal', <<t>>) = SeriesValue(errorsTotal, <<t>>) + 1
               /\ \A u \in ErrorTypes \ {t} :
                     SeriesValue(errorsTotal', <<u>>) = SeriesValue(errorsTotal, <<u>>)
               /\ DOMAIN errorsTotal' \subseteq {<<u>> : u \in ErrorTypes}
               /\ UNCHANGED <<requestsTotal, requestDuration, requestsInFlight>>
       ELSE errorsTotal' = errorsTotal]_vars

\* C22 witness: "timeout" was recorded twice, the second time while a request
\* was in its handler and another had been counted; only that series exists
C22_Witness ==
    /\ recorded = <<"timeout", "timeout">>
    /\ SeriesValue(errorsTotal, <<"timeout">>) = 2
    /\ SeriesValue(errorsTotal, <<"db">>) = 0
    /\ reqs[1].pc = "done"
    /\ reqs[2].pc = "next"
    /\ requestsInFlight = 1
    /\ requestsTotal # <<>>

\* the sum of the values of the series D of vec
RECURSIVE SumOver(_, _)
SumOver(vec, D) ==
    IF D = {} THEN 0
    ELSE LET k == CHOOSE x \in D : TRUE IN vec[k] + SumOver(vec, D \ {k})

\* instrumented requests that are at one of the positions pcs
InstrumentedAt(pcs) == {r \in Reqs : reqs[r].wrapped /\ reqs[r].pc \in pcs}

\* C23: in every state the in-flight gauge is the number of instrumented
\* requests that have made the increment on entry and not yet the decrement
\* on exit, so it is never negative; and the requests counted and observed
\* are exactly the instrumented requests that got past the respective step
\* of the deferred function, among them every request whose handler panicked
\* (the requests the recording itself failed for excepted).
C23_GaugeCountsRequestsInside ==
    /\ requestsInFlight = Cardinality(InstrumentedAt({"next", "defer_dec"}))
    /\ requestsInFlight >= 0
    /\ SumOver(requestsTotal, DOMAIN requestsTotal)
          = Cardinality(InstrumentedAt({"defer_observe", "done", "unwound"}))
    /\ SumOver(requestDuration, DOMAIN requestDuration)
          = Cardinality(InstrumentedAt({"done", "unwound"}))
    /\ \A r \in Reqs :
          (reqs[r].wrapped /\ reqs[r].pc = "unwound") =>
              /\ reqs[r].hpanic
              /\ SeriesValue(requestsTotal, CounterKey(reqs[r])) >= 1
              /\ SeriesValue(requestDuration, DurationKey(reqs[r])) >= 1

\* C23 witness: the handler of the first request panicked before it wrote
\* anything; the request was taken off the gauge, counted with status 200
\* and observed; the second request is in its handler and on the gauge
C23_Witness ==
    /\ reqs[1].wrapped /\ reqs[1].hpanic /\ reqs[1].pc = "unwound"
    /\ reqs[1].ww.sink = <<>>
    /\ reqs[1].path = "/api/v1/users/1"
    /\ SeriesValue(requestsTotal, CounterKey(reqs[1])) = 1
    /\ CounterKey(reqs[1])[3] = "200"
    /\ SeriesValue(requestDuration, DurationKey(reqs[1])) = 1
    /\ reqs[2].wrapped /\ reqs[2].pc = "next"
    /\ requestsInFlight = 1

\* C24: for every request that has passed Collector.Middleware and
\* Logger.Middleware, the status label of the counter series it is counted
\* in is the decimal text of the http.status field of its "request
\* completed" event.
C24_MetricAndLogStatusAgree ==
    \A r \in Reqs :
       (reqs[r].pc \in {"defer_observe", "done"} /\ pipe.n = r /\ pipe.pc = "done") =>
           /\ Len(Completed) = 1
           /\ CounterKey(reqs[r])[3] = Itoa(FieldNumber(Completed[1], "http.status"))

Init == InitOneTask
Next == RwNext
Spec == Init /\ [][Next]_vars

====
